---- MODULE Spec2Model ----
(***************************************************************************)
(* A model of certbot_dns_20i/dns_20i.py: the certbot DNS-01 authenticator *)
(* for the 20i provider.  Python strings that the code slices, splits or   *)
(* joins (domain, zone and record names) are sequences of one-character    *)
(* strings; values that are only compared (TXT contents, record types,     *)
(* error classes) are TLA+ strings.                                        *)
(***************************************************************************)
EXTENDS Integers, Sequences, FiniteSets, TLC

\* zones:   the names of the zones the provider account hosts
\* records: the DNS records the provider holds, over all its zones
\* zone_id: Authenticator._zone_id, the memoized zone (None when unset)
\* call:    the call in hand: its arguments, what its requests meet and,
\*          once made, what it returned or raised and the requests it issued
\* prev:    the call made before it on the same instance
\* ncalls:  the number of calls made on the instance
\* passes:  the add_txt_record/del_txt_record passes run side by side: for
\*          each its arguments, where it stands and what it fetched
\* overlapped: whether a pass has taken a step between the fetch and the
\*          post of another pass
VARIABLES zones, records, zone_id, call, prev, ncalls, passes, overlapped

vars == <<zones, records, zone_id, call, prev, ncalls, passes, overlapped>>

\* ------------------------------------------------------------------ bounds
\* Longest domain name given to the authenticator, in labels.
MaxLabels == 2
\* Largest number of zones the provider account hosts.
MaxZones == 2
\* Largest number of records the provider holds before the first call.
MaxRecords == 2
\* Longest name, in characters, given to _split_record_name on its own.
MaxNameLen == 4
\* Number of _perform/_cleanup calls made on one Authenticator instance.
MaxCalls == 3
\* Number of record passes run side by side.
MaxPasses == 3

\* ------------------------------------------------------------ Python str
DOT == "."
Letters == {"a", "b"}
None == <<"None">>

Max(a, b) == IF a >= b THEN a ELSE b

\* s.endswith(t)
EndsWith(s, t) ==
    /\ Len(t) <= Len(s)
    /\ SubSeq(s, Len(s) - Len(t) + 1, Len(s)) = t

\* s[:-k] for k >= 1: the slice clamps at the start of the string.
DropLast(s, k) == SubSeq(s, 1, Max(0, Len(s) - k))

\* s.rstrip(".")
RECURSIVE RStripDot(_)
RStripDot(s) ==
    IF s # <<>> /\ s[Len(s)] = DOT THEN RStripDot(SubSeq(s, 1, Len(s) - 1)) ELSE s

\* s.split("."): the list of the pieces between dots, empty pieces included.
RECURSIVE SplitFrom(_, _, _)
SplitFrom(s, i, cur) ==
    IF i > Len(s) THEN <<cur>>
    ELSE IF s[i] = DOT THEN <<cur>> \o SplitFrom(s, i + 1, <<>>)
    ELSE SplitFrom(s, i + 1, Append(cur, s[i]))

SplitDot(s) == SplitFrom(s, 1, <<>>)

\* ".".join(parts)
RECURSIVE JoinDot(_)
JoinDot(parts) ==
    IF parts = <<>> THEN <<>>
    ELSE IF Len(parts) = 1 THEN parts[1]
    ELSE parts[1] \o <<DOT>> \o JoinDot(Tail(parts))

\* The literal "_acme_challenge" of the f-string in _find_zone_id_for_domain.
AcmeLabel == <<"_", "a", "c", "m", "e", "_", "c", "h", "a", "l", "l", "e", "n", "g", "e">>

\* --------------------------------------------------------------- results
\* What a call gives its caller: a return value, or the exception raised.
\* kind is "ok" or the exception class; msg tells the PluginErrors apart.
Ok(v) == [kind |-> "ok", msg |-> "", val |-> v, count |-> -1, cause |-> "", status |-> 0]

PluginError(m) ==
    [kind |-> "PluginError", msg |-> m, val |-> <<>>, count |-> -1, cause |-> "", status |-> 0]

Raised(o) ==
    [kind |-> o.kind, msg |-> "", val |-> <<>>, count |-> -1, cause |-> "", status |-> o.status]

\* Outcomes of one request to the provider.
Fine == [kind |-> "ok", status |-> 200]
Http(st) == [kind |-> "HTTPError", status |-> st]
ApiError == [kind |-> "APIError", status |-> 0]
ConnError == [kind |-> "ConnectionError", status |-> 0]

\* The failures a request can meet whatever the provider holds.
Faults == {Http(503), ApiError, ConnError}
NoFaults == [lookupAt |-> 0, lookup |-> Fine, get |-> Fine, post |-> Fine]

\* ------------------------------------------------------------ the provider
\* GET /domain/{domain}: succeeds exactly for a hosted zone; a request may
\* also meet a failure of its own.  n counts the lookups of one resolution.
get_domain_info(candidate, n, f) ==
    IF f.lookupAt = n THEN f.lookup
    ELSE IF candidate \in zones THEN Fine
    ELSE Http(404)

\* GET /domain/{zone}/dns
GetDns(zone, f) ==
    IF f.get # Fine THEN f.get
    ELSE IF zone \in zones THEN Fine
    ELSE Http(404)

ZoneRecords(recs, zone) == {r \in recs : r.zone = zone}

\* The provider names a new record by a reference no record of its carries.
FreshRef(recs) ==
    CHOOSE n \in 1..(Cardinality(recs) + 1) :
        /\ \A r \in recs : r.ref # n
        /\ \A m \in 1..(n - 1) : \E r \in recs : r.ref = m

\* POST {"new": {"TXT": [{host, txt}]}}: the provider stores the record under
\* its fully-qualified host; "@" stands for the zone apex.
ProviderCreate(recs, zone, host, txt) ==
    recs \cup {[zone |-> zone, ref |-> FreshRef(recs),
                host |-> IF host = <<"@">> THEN zone ELSE host \o <<DOT>> \o zone,
                type |-> "TXT", txt |-> txt]}

\* POST {"delete": [ref, ...]}
ProviderDelete(recs, zone, refs) ==
    {r \in recs : ~(r.zone = zone /\ \E i \in 1..Len(refs) : refs[i] = r.ref)}

NewBody(zone, host, txt) ==
    [zone |-> zone, kind |-> "new", host |-> host, txt |-> txt, delete |-> <<>>]

DeleteBody(zone, refs) ==
    [zone |-> zone, kind |-> "delete", host |-> <<>>, txt |-> "", delete |-> refs]

\* --------------------------------------------------------- Authenticator
\* _split_record_name with the "+ 1" for the dot forgotten.
split_record_name_keeps_dot(full_name, zone) ==
    IF EndsWith(full_name, zone)
    THEN Ok(DropLast(full_name, Len(zone)))
    ELSE PluginError("Record name is not a prefix of domain zone")

\* _split_record_name(full_name, zone)
split_record_name(full_name, zone) ==
    IF EndsWith(full_name, zone)
    THEN Ok(DropLast(full_name, Len(zone) + 1))
    ELSE PluginError("Record name is not a prefix of domain zone")

\* candidate_zones: the labels of "_acme_challenge.{domain}", trailing dots
\* stripped.
candidate_zones(domain) == SplitDot(RStripDot(AcmeLabel \o <<DOT>> \o domain))

\* The candidates visited from the shortest to the longest.
Candidates_shortest_first(domain) ==
    LET labels == candidate_zones(domain)
    IN  [i \in 1..Len(labels) |->
            JoinDot(SubSeq(labels, Len(labels) - i + 1, Len(labels)))]

\* The candidates in the order the loop visits them: labels[i:] joined.
Candidates(domain) ==
    LET labels == candidate_zones(domain)
    IN  [i \in 1..Len(labels) |-> JoinDot(SubSeq(labels, i, Len(labels)))]

\* "except HTTPError, APIError:" catches HTTPError and binds it to the name
\* APIError; every other exception class leaves the loop.
Caught(o) == o.kind = "HTTPError"

\* The loop of _find_zone_id_for_domain from candidate i on.
RECURSIVE Probe(_, _, _)
Probe(cands, i, f) ==
    IF i > Len(cands)
    THEN [res |-> PluginError("Unable to find a 20i hosted zone"), lookups |-> <<>>]
    ELSE LET o == get_domain_info(cands[i], i, f)
         IN  IF o.kind = "ok"
             THEN [res |-> Ok(cands[i]), lookups |-> <<cands[i]>>]
             ELSE IF Caught(o)
             THEN LET rest == Probe(cands, i + 1, f)
                  IN  [res |-> rest.res, lookups |-> <<cands[i]>> \o rest.lookups]
             ELSE [res |-> Raised(o), lookups |-> <<cands[i]>>]

\* _find_zone_id_for_domain(domain): the result and the lookups issued.
find_zone_id_for_domain(domain, f) == Probe(Candidates(domain), 1, f)

\* _get_zone_id_for_domain without the test of the memoized zone.
get_zone_id_for_domain_no_memo(domain, zid, f) ==
    LET found == find_zone_id_for_domain(domain, f)
    IN  [res |-> found.res,
         zid |-> IF found.res.kind = "ok" THEN found.res.val ELSE zid,
         lookups |-> found.lookups]

\* _get_zone_id_for_domain(domain): the result, the new _zone_id and the
\* lookups issued.
get_zone_id_for_domain(domain, zid, f) ==
    IF zid # None
    THEN [res |-> Ok(zid), zid |-> zid, lookups |-> <<>>]
    ELSE LET found == find_zone_id_for_domain(domain, f)
         IN  [res |-> found.res,
              zid |-> IF found.res.kind = "ok" THEN found.res.val ELSE zid,
              lookups |-> found.lookups]

\* ------------------------------------------------------------ TwentyIDns
\* The comparison made against the record name alone.
TargetHost_relative(record_name, zone) == record_name

\* '.'.join([record_name, zone]): the host both methods compare against.
TargetHost(record_name, zone) == JoinDot(<<record_name, zone>>)

\* The 'host' of the create request: record_name if record_name else '@'.
WireHost(record_name) == IF record_name # <<>> THEN record_name ELSE <<"@">>

\* The conflict loop looking at TXT records only.
Conflicts_txt_only(fetched, record_name, zone) ==
    \E record \in fetched :
        record.type = "TXT" /\ record.host = TargetHost(record_name, zone)

\* The conflict loop comparing the host with the bare record name.
Conflicts_bare_name(fetched, record_name, zone) ==
    \E record \in fetched : record.host = record_name

\* The loop of add_txt_record over dns['records'].
Conflicts(fetched, record_name, zone) ==
    \E record \in fetched : record.host = TargetHost(record_name, zone)

\* The filter without its comparison of the content.
Matching_any_content(fetched, record_name, zone, record_content) ==
    {x \in fetched : x.type = "TXT" /\ x.host = TargetHost(record_name, zone)}

\* The filter of del_txt_record over dns['records'].
Matching(fetched, record_name, zone, record_content) ==
    {x \in fetched : /\ x.type = "TXT"
                     /\ x.host = TargetHost(record_name, zone)
                     /\ x.txt = record_content}

\* The count check accepting any match at all.
WrongCount_none_only(n) == n = 0

\* len(records) != 1
WrongCount(n) == n # 1

\* The except clause around the create post: an HTTPError is wrapped in a
\* PluginError that carries it; any other exception passes through.
WrapAdd(o) ==
    IF o.kind = "HTTPError"
    THEN [PluginError("Failed to add TXT record") EXCEPT !.cause = o.kind, !.status = o.status]
    ELSE Raised(o)

\* add_txt_record(zone, record_name, record_content): the result, the
\* provider's records afterwards and the posts issued.  A post that fails
\* leaves the provider's records as they were.
add_txt_record(zone, record_name, record_content, recs, f) ==
    LET got == GetDns(zone, f)
        body == NewBody(zone, WireHost(record_name), record_content)
    IN  IF got.kind # "ok"
        THEN [res |-> Raised(got), records |-> recs, posts |-> <<>>]
        ELSE IF Conflicts(ZoneRecords(recs, zone), record_name, zone)
        THEN [res |-> PluginError("Found an existing acme_challenge record"),
              records |-> recs, posts |-> <<>>]
        ELSE IF f.post.kind # "ok"
        THEN [res |-> WrapAdd(f.post), records |-> recs, posts |-> <<body>>]
        ELSE [res |-> Ok(None),
              records |-> ProviderCreate(recs, zone, body.host, body.txt),
              posts |-> <<body>>]

\* del_txt_record(zone, record_name, record_content)
del_txt_record(zone, record_name, record_content, recs, f) ==
    LET got == GetDns(zone, f)
        found == Matching(ZoneRecords(recs, zone), record_name, zone, record_content)
        ref == (CHOOSE x \in found : TRUE).ref
        body == DeleteBody(zone, <<ref>>)
    IN  IF got.kind # "ok"
        THEN [res |-> Raised(got), records |-> recs, posts |-> <<>>]
        ELSE IF WrongCount(Cardinality(found))
        THEN [res |-> [PluginError("Expecting to find 1 record to delete")
                          EXCEPT !.count = Cardinality(found)],
              records |-> recs, posts |-> <<>>]
        ELSE IF f.post.kind # "ok"
        THEN [res |-> Raised(f.post), records |-> recs, posts |-> <<body>>]
        ELSE [res |-> Ok(None),
              records |-> ProviderDelete(recs, zone, body.delete),
              posts |-> <<body>>]

\* The body shared by _perform and _cleanup: resolve the zone, split the
\* validation name, then run the record operation op.
Handle(op, domain, validation_name, validation, zid, recs, f) ==
    LET z == get_zone_id_for_domain(domain, zid, f)
        split == split_record_name(validation_name, z.res.val)
        done == IF op = "perform"
                THEN add_txt_record(z.res.val, split.val, validation, recs, f)
                ELSE del_txt_record(z.res.val, split.val, validation, recs, f)
        base == [res |-> z.res, zid |-> z.zid, records |-> recs,
                 lookups |-> z.lookups, posts |-> <<>>,
                 zone |-> <<>>, record_name |-> <<>>]
    IN  IF z.res.kind # "ok" THEN base
        ELSE IF split.kind # "ok" THEN [base EXCEPT !.res = split, !.zone = z.res.val]
        ELSE [base EXCEPT !.res = done.res, !.records = done.records,
                          !.posts = done.posts, !.zone = z.res.val,
                          !.record_name = split.val]

\* _perform(domain, validation_name, validation)
perform(domain, validation_name, validation, zid, recs, f) ==
    Handle("perform", domain, validation_name, validation, zid, recs, f)

\* _cleanup(domain, validation_name, validation)
cleanup(domain, validation_name, validation, zid, recs, f) ==
    Handle("cleanup", domain, validation_name, validation, zid, recs, f)

\* ---------------------------------------------------------------- inputs
\* The non-empty sequences over S of length at most n.
SeqsUpTo(S, n) == UNION {[1..k -> S] : k \in 1..n}

\* The subsets of U of at most k elements.
RECURSIVE SetsUpTo(_, _)
SetsUpTo(U, k) ==
    IF k = 0 THEN {{}}
    ELSE LET smaller == SetsUpTo(U, k - 1)
         IN  smaller \cup {S \cup {x} : S \in smaller, x \in U}

\* A DNS name: labels are not empty, so no dot leads, ends or follows a dot.
WellFormed(s) ==
    /\ s # <<>>
    /\ s[1] # DOT
    /\ s[Len(s)] # DOT
    /\ \A i \in 1..(Len(s) - 1) : ~(s[i] = DOT /\ s[i + 1] = DOT)

\* The names _split_record_name is tried on.
SplitNames == {s \in SeqsUpTo(Letters \cup {DOT}, MaxNameLen) : WellFormed(s)}

\* The domains certificates are asked for: one-letter labels.
DomainNames == {JoinDot(ls) : ls \in SeqsUpTo({<<c>> : c \in Letters}, MaxLabels)}

\* A domain may be written with its trailing dot.
Domains == DomainNames \cup {d \o <<DOT>> : d \in DomainNames}

\* The names a hosted zone may have: a domain, or the challenge name of one.
ZoneNames == DomainNames \cup {AcmeLabel \o <<DOT>> \o d : d \in DomainNames}

ZoneSets == SetsUpTo(ZoneNames, MaxZones)

\* What the lookups of one resolution meet: nothing, or one failure at the
\* n-th lookup.
LookupFaults ==
    {NoFaults} \cup {[NoFaults EXCEPT !.lookupAt = n, !.lookup = k] :
                        n \in 1..(MaxLabels + 1), k \in Faults}

\* A call not made yet.
NewCall(op, domain, name, zone, record_name, content, f) ==
    [op |-> op, domain |-> domain, name |-> name, zone |-> zone,
     record_name |-> record_name, content |-> content, f |-> f,
     done |-> FALSE, res |-> Ok(<<>>), lookups |-> <<>>, posts |-> <<>>,
     before |-> {}, zid_before |-> None]

NoCall == NewCall("none", <<>>, <<>>, <<>>, <<>>, "", NoFaults)

\* ------------------------------------------- _split_record_name on its own
InitSplit ==
    /\ zones = {}
    /\ records = {}
    /\ zone_id = None
    /\ prev = NoCall
    /\ ncalls = 0
    /\ passes = <<>>
    /\ overlapped = FALSE
    /\ call \in {NewCall("split", <<>>, full_name, zone, <<>>, "", NoFaults) :
                    full_name \in SplitNames, zone \in SplitNames}

SplitStep ==
    /\ call.op = "split"
    /\ ~call.done
    /\ call' = [call EXCEPT !.done = TRUE,
                            !.res = split_record_name(call.name, call.zone)]
    /\ UNCHANGED <<zones, records, zone_id, prev, ncalls, passes, overlapped>>

NextSplit == SplitStep

SpecSplit == InitSplit /\ [][NextSplit]_vars

\* -------------------------------------- _find_zone_id_for_domain on its own
InitResolve ==
    /\ zones \in ZoneSets
    /\ records = {}
    /\ zone_id = None
    /\ prev = NoCall
    /\ ncalls = 0
    /\ passes = <<>>
    /\ overlapped = FALSE
    /\ call \in {NewCall("find", domain, <<>>, <<>>, <<>>, "", f) :
                    domain \in Domains, f \in LookupFaults}

FindStep ==
    /\ call.op = "find"
    /\ ~call.done
    /\ LET found == find_zone_id_for_domain(call.domain, call.f)
       IN  call' = [call EXCEPT !.done = TRUE, !.res = found.res,
                                !.lookups = found.lookups]
    /\ UNCHANGED <<zones, records, zone_id, prev, ncalls, passes, overlapped>>

NextResolve == FindStep

SpecResolve == InitResolve /\ [][NextResolve]_vars

\* -------------------------------- add_txt_record, del_txt_record on their own
Contents == {"v1", "v2"}
Types == {"TXT", "A"}

\* The zones the record operations are tried on.
RecordZones == {<<"b">>, <<"a", DOT, "b">>}

\* Record names inside a zone; the empty one is the zone apex.
RecordNames == {<<>>, <<"a">>, <<"b">>}

\* The hosts the provider can hold in zone z, fully qualified.
HostsOf(z) == {z} \cup {r \o <<DOT>> \o z : r \in RecordNames \ {<<>>}}

\* The record sets zone z can hold before a call: k records, references 1..k.
RecordSets(z) ==
    UNION {{{[zone |-> z, ref |-> i, host |-> c[i].host, type |-> c[i].type,
              txt |-> c[i].txt] : i \in 1..k} :
               c \in [1..k -> [host : HostsOf(z), type : Types, txt : Contents]]} :
           k \in 0..MaxRecords}

\* What the requests of one record operation meet: nothing, a failure of the
\* fetch, or a failure of the post.
RecordFaults ==
    {NoFaults} \cup {[NoFaults EXCEPT !.get = k] : k \in Faults}
               \cup {[NoFaults EXCEPT !.post = k] : k \in Faults}

RecordCalls ==
    {NewCall(op, <<>>, <<>>, z, r, v, f) :
        op \in {"add", "del"}, z \in RecordZones, r \in RecordNames,
        v \in Contents, f \in RecordFaults}

\* The zone of the call is hosted, with any record set, or it is not hosted
\* and the provider holds nothing for it.
InitRecords ==
    /\ zone_id = None
    /\ prev = NoCall
    /\ ncalls = 0
    /\ passes = <<>>
    /\ overlapped = FALSE
    /\ call \in RecordCalls
    /\ \/ zones = {call.zone} /\ records \in RecordSets(call.zone)
       \/ zones = {} /\ records = {}

AddStep ==
    /\ call.op = "add"
    /\ ~call.done
    /\ LET r == add_txt_record(call.zone, call.record_name, call.content, records, call.f)
       IN  /\ call' = [call EXCEPT !.done = TRUE, !.res = r.res, !.posts = r.posts,
                                   !.before = records]
           /\ records' = r.records
    /\ UNCHANGED <<zones, zone_id, prev, ncalls, passes, overlapped>>

DelStep ==
    /\ call.op = "del"
    /\ ~call.done
    /\ LET r == del_txt_record(call.zone, call.record_name, call.content, records, call.f)
       IN  /\ call' = [call EXCEPT !.done = TRUE, !.res = r.res, !.posts = r.posts,
                                   !.before = records]
           /\ records' = r.records
    /\ UNCHANGED <<zones, zone_id, prev, ncalls, passes, overlapped>>

NextRecords == AddStep \/ DelStep

SpecRecords == InitRecords /\ [][NextRecords]_vars

\* ------------------------------------------- one Authenticator instance
\* certbot hands _perform and _cleanup the validation name of the domain:
\* "_acme-challenge." + domain.
ChallengeLabel == <<"_", "a", "c", "m", "e", "-", "c", "h", "a", "l", "l", "e", "n", "g", "e">>

ValidationName(domain) == ChallengeLabel \o <<DOT>> \o domain

\* The domains of the certificates and the zones the account may host.
CertDomains == {<<"b">>, <<"a", DOT, "b">>}
HostedZoneSets == SUBSET {<<"b">>, <<"a", DOT, "b">>, AcmeLabel \o <<DOT, "a", DOT, "b">>}

\* One address record at the apex of each zone of Z, the shortest zone first.
ApexRecords(Z) ==
    {[zone |-> z, ref |-> Cardinality({y \in Z : Len(y) <= Len(z)}), host |-> z,
      type |-> "A", txt |-> ""] : z \in Z}

\* What the requests of one call meet: nothing, a network failure of the
\* first lookup, or a server error of the post.
CallFaults ==
    {NoFaults, [NoFaults EXCEPT !.lookupAt = 1, !.lookup = ConnError],
     [NoFaults EXCEPT !.post = Http(503)]}

Init ==
    /\ zones \in HostedZoneSets
    /\ records \in {{}, ApexRecords(zones)}
    /\ zone_id = None
    /\ call = NoCall
    /\ prev = NoCall
    /\ ncalls = 0
    /\ passes = <<>>
    /\ overlapped = FALSE

\* The record of a call made, from what the handler gave.
Made(op, domain, name, value, f, r) ==
    [NewCall(op, domain, name, r.zone, r.record_name, value, f)
        EXCEPT !.done = TRUE, !.res = r.res, !.lookups = r.lookups,
               !.posts = r.posts, !.before = records, !.zid_before = zone_id]

PerformStep(domain, value, f) ==
    /\ ncalls < MaxCalls
    /\ LET r == perform(domain, ValidationName(domain), value, zone_id, records, f)
       IN  /\ call' = Made("perform", domain, ValidationName(domain), value, f, r)
           /\ zone_id' = r.zid
           /\ records' = r.records
    /\ prev' = call
    /\ ncalls' = ncalls + 1
    /\ UNCHANGED <<zones, passes, overlapped>>

CleanupStep(domain, value, f) ==
    /\ ncalls < MaxCalls
    /\ LET r == cleanup(domain, ValidationName(domain), value, zone_id, records, f)
       IN  /\ call' = Made("cleanup", domain, ValidationName(domain), value, f, r)
           /\ zone_id' = r.zid
           /\ records' = r.records
    /\ prev' = call
    /\ ncalls' = ncalls + 1
    /\ UNCHANGED <<zones, passes, overlapped>>

Next ==
    \E domain \in CertDomains, value \in Contents, f \in CallFaults :
        \/ PerformStep(domain, value, f)
        \/ CleanupStep(domain, value, f)

Spec == Init /\ [][Next]_vars

\* ------------------------------------- record passes run side by side
\* Each pass is add_txt_record or del_txt_record for one zone and one
\* non-empty record name; it takes two steps, its fetch and then what it
\* does with what it fetched, and steps of other passes may come between.
Passes == 1..MaxPasses

PassFaults ==
    {NoFaults, [NoFaults EXCEPT !.get = ConnError], [NoFaults EXCEPT !.post = Http(503)]}

NewPass(z, r) ==
    [zone |-> z, record_name |-> r, op |-> "none", content |-> "", f |-> NoFaults,
     pc |-> "idle", fetched |-> {}, res |-> Ok(<<>>), posts |-> <<>>]

\* The provider holds an address record at the apex, or nothing.
InitPasses ==
    /\ zone_id = None
    /\ call = NoCall
    /\ prev = NoCall
    /\ ncalls = 0
    /\ overlapped = FALSE
    /\ \E z \in RecordZones, r \in RecordNames \ {<<>>} :
          /\ zones = {z}
          /\ records \in {{}, ApexRecords({z})}
          /\ passes = [p \in Passes |-> NewPass(z, r)]


\* The provider carrying out one accepted post.
ProviderApply(recs, body) ==
    IF body.kind = "new"
    THEN ProviderCreate(recs, body.zone, body.host, body.txt)
    ELSE ProviderDelete(recs, body.zone, body.delete)

\* The method of pass ps run on the records recs.
PassRun(ps, recs) ==
    IF ps.op = "add"
    THEN add_txt_record(ps.zone, ps.record_name, ps.content, recs, ps.f)
    ELSE del_txt_record(ps.zone, ps.record_name, ps.content, recs, ps.f)

\* Another pass stands between its fetch and the post it goes on to issue.
Between(p) ==
    \E q \in Passes \ {p} :
        passes[q].pc = "fetched" /\ PassRun(passes[q], passes[q].fetched).posts # <<>>

\* The fetch of a pass (lines 102, 130): it keeps what the provider holds
\* now; a fetch that fails ends the pass.  Passes start in the order of
\* their numbers.
FetchStep(p, op, content, f) ==
    /\ passes[p].pc = "idle"
    /\ \A q \in 1..(p - 1) : passes[q].pc # "idle"
    /\ LET ps == [passes[p] EXCEPT !.op = op, !.content = content, !.f = f]
           got == GetDns(ps.zone, f)
       IN  passes' = [passes EXCEPT ![p] =
               IF got = Fine
               THEN [ps EXCEPT !.pc = "fetched", !.fetched = records]
               ELSE [ps EXCEPT !.pc = "done", !.res = PassRun(ps, records).res]]
    /\ overlapped' = (overlapped \/ Between(p))
    /\ UNCHANGED <<zones, records, zone_id, call, prev, ncalls>>

\* The rest of a pass: the check of what it fetched and, when that passes,
\* its post, which the provider carries out on what it holds by then.
ActStep(p) ==
    /\ passes[p].pc = "fetched"
    /\ LET ps == passes[p]
           r == PassRun(ps, ps.fetched)
       IN  /\ passes' = [passes EXCEPT ![p] =
                   [ps EXCEPT !.pc = "done", !.res = r.res, !.posts = r.posts]]
           /\ records' = IF r.posts # <<>> /\ ps.f.post = Fine
                         THEN ProviderApply(records, r.posts[1])
                         ELSE records
    /\ overlapped' = (overlapped \/ Between(p))
    /\ UNCHANGED <<zones, zone_id, call, prev, ncalls>>

NextPasses ==
    \E p \in Passes :
        \/ \E op \in {"add", "del"}, content \in Contents, f \in PassFaults :
               FetchStep(p, op, content, f)
        \/ ActStep(p)

SpecPasses == InitPasses /\ [][NextPasses]_vars

\* ----------------------------------------------------------------- claims
\* zone is full or what follows one of full's dots.
DotSuffix(zone, full) == full = zone \/ EndsWith(full, <<DOT>> \o zone)

NumLabels(name) == Len(SplitDot(name))

StrictPrefix(r, full) == Len(r) < Len(full) /\ SubSeq(full, 1, Len(r)) = r

\* record_name + "." + zone, or the zone itself for the empty record name.
Reassemble(r, zone) == IF r # <<>> THEN r \o <<DOT>> \o zone ELSE zone

SplitDone == call.op = "split" /\ call.done
FindDone == call.op = "find" /\ call.done

ZoneNotFound == PluginError("Unable to find a 20i hosted zone")

\* C1: with every lookup answered by the provider (no failure of the
\* request itself), _find_zone_id_for_domain(d) returns the hosted zone that
\* is a dot-delimited suffix of d with the most labels, and raises the
\* zone-not-found error when no hosted zone is a suffix of d.  Stated for
\* domains written without a trailing dot.
C1_LongestSuffixOfDomain ==
    (FindDone /\ call.f = NoFaults /\ call.domain \in DomainNames) =>
        LET S == {z \in zones : DotSuffix(z, call.domain)}
        IN  IF S = {} THEN call.res = ZoneNotFound
            ELSE /\ call.res.kind = "ok"
                 /\ call.res.val \in S
                 /\ \A z \in S : NumLabels(z) <= NumLabels(call.res.val)

\* C7: _split_record_name raises the not-a-suffix error whenever zone is not
\* a dot-delimited suffix of full_name.
C7_SplitFailsOffBoundary ==
    (SplitDone /\ ~DotSuffix(call.zone, call.name)) =>
        call.res = PluginError("Record name is not a prefix of domain zone")

\* C8: a lookup that fails in any class but not-found (a server error, a
\* network failure) ends the resolution with that very error: it is never
\* followed by a zone from a shorter candidate nor by zone-not-found.
C8_OtherFailuresPropagate ==
    (FindDone /\ call.f.lookupAt \in 1..Len(call.lookups)) =>
        call.res = Raised(call.f.lookup)

\* C10: when zone is a dot-delimited suffix of full (full = zone included),
\* _split_record_name returns r with Reassemble(r, zone) = full, and r is a
\* strict prefix of full.
C10_SplitReassembles ==
    (SplitDone /\ DotSuffix(call.zone, call.name)) =>
        /\ call.res.kind = "ok"
        /\ Reassemble(call.res.val, call.zone) = call.name
        /\ StrictPrefix(call.res.val, call.name)

\* C10 witness: a split that left a non-empty record name.
C10_Witness ==
    /\ SplitDone
    /\ DotSuffix(call.zone, call.name)
    /\ call.res.kind = "ok"
    /\ call.res.val # <<>>

AddDone == call.op = "add" /\ call.done
DelDone == call.op = "del" /\ call.done

\* The fetch of the call in hand returned the zone's record set.
Fetched == GetDns(call.zone, call.f) = Fine

\* The records the call in hand fetched.
FetchedRecords == {r \in call.before : r.zone = call.zone}

\* The host a record operation compares each fetched record's host against.
CallTarget == TargetHost(call.record_name, call.zone)

\* The fetched records matching on type TXT, target host and content.
CallMatches ==
    {x \in FetchedRecords :
        x.type = "TXT" /\ x.host = CallTarget /\ x.txt = call.content}

ConflictError == PluginError("Found an existing acme_challenge record")

ReconciliationError(n) ==
    [PluginError("Expecting to find 1 record to delete") EXCEPT !.count = n]

\* C2: when the fetched record set holds a record whose host is the target
\* host, add_txt_record raises the conflict error, issues no post and leaves
\* the provider's records as they were.
C2_ConflictNoPost ==
    (AddDone /\ Fetched /\ \E r \in FetchedRecords : r.host = CallTarget) =>
        /\ call.res = ConflictError
        /\ call.posts = <<>>
        /\ records = call.before

\* C2 witness: an add that met a record of another type at the target host.
C2_Witness ==
    /\ AddDone
    /\ Fetched
    /\ \E r \in FetchedRecords : r.host = CallTarget /\ r.type = "A"
    /\ call.res = ConflictError

\* C3: when exactly one fetched record matches on type TXT, target host and
\* content, del_txt_record issues exactly one post, whose delete list is
\* that record's ref alone; when that post is accepted the call succeeds and
\* the provider has dropped exactly that record.
C3_DeleteTheOneMatch ==
    (DelDone /\ Fetched /\ Cardinality(CallMatches) = 1) =>
        LET x == CHOOSE m \in CallMatches : TRUE
        IN  /\ call.posts = <<DeleteBody(call.zone, <<x.ref>>)>>
            /\ call.f.post = Fine =>
                   call.res = Ok(None) /\ records = call.before \ {x}

\* C3 witness: a delete that succeeded with another TXT record of different
\* content at the same host, which stayed.
C3_Witness ==
    /\ DelDone
    /\ Fetched
    /\ Cardinality(CallMatches) = 1
    /\ call.res = Ok(None)
    /\ \E y \in records : y.type = "TXT" /\ y.host = CallTarget /\ y.txt # call.content

\* C4: when the number n of fetched records matching on type TXT, target
\* host and content is not 1, del_txt_record raises the reconciliation error
\* reporting n, issues no post and leaves the provider's records as they were.
C4_WrongCountNoPost ==
    (DelDone /\ Fetched /\ Cardinality(CallMatches) # 1) =>
        /\ call.res = ReconciliationError(Cardinality(CallMatches))
        /\ call.posts = <<>>
        /\ records = call.before

\* C4 witness: a delete that found two matching records.
C4_Witness ==
    /\ DelDone
    /\ Fetched
    /\ Cardinality(CallMatches) = 2
    /\ call.res = ReconciliationError(2)

\* The request of the call in hand that failed, if one did.
FailedRequest ==
    IF GetDns(call.zone, call.f) # Fine THEN GetDns(call.zone, call.f)
    ELSE IF call.posts # <<>> THEN call.f.post
    ELSE Fine

\* C9: a failure of the fetch or of the post inside add_txt_record or
\* del_txt_record reaches the caller as a PluginError carrying the failure.
C9_FailuresWrapped ==
    ((AddDone \/ DelDone) /\ FailedRequest # Fine) =>
        /\ call.res.kind = "PluginError"
        /\ call.res.cause = FailedRequest.kind

HandlerDone(c) == c.op \in {"perform", "cleanup"} /\ c.done

\* The records of zone z at host h.
AtHost(recs, z, h) == {r \in recs : r.zone = z /\ r.host = h}

\* What C5 asks of a call: its requests met no failure, it resolved a zone
\* that holds the validation name under a non-empty record name, and the
\* provider held no record at that host before it.
CleanStart(c) ==
    /\ c.f = NoFaults
    /\ c.zone # <<>>
    /\ DotSuffix(c.zone, c.name)
    /\ c.name # c.zone
    /\ AtHost(c.before, c.zone, c.name) = {}

\* prev and call are _perform and then _cleanup of the same challenge.
PerformThenCleanup ==
    /\ prev.op = "perform" /\ prev.done
    /\ call.op = "cleanup" /\ call.done
    /\ call.domain = prev.domain /\ call.name = prev.name
    /\ call.content = prev.content
    /\ call.f = NoFaults
    /\ CleanStart(prev)

\* C5: from a provider with no record at the validation name, _perform
\* succeeds and leaves exactly one record there, a TXT record of the given
\* value; _cleanup of the same challenge then succeeds, posts the deletion
\* of that record's ref alone, and the provider's records are again those
\* before _perform.
C5_PerformCleanupRoundTrip ==
    /\ (call.op = "perform" /\ call.done /\ CleanStart(call)) =>
           /\ call.res = Ok(None)
           /\ \E x \in records :
                  /\ AtHost(records, call.zone, call.name) = {x}
                  /\ x.type = "TXT" /\ x.txt = call.content
                  /\ records = call.before \cup {x}
    /\ PerformThenCleanup =>
           /\ prev.res = Ok(None)
           /\ call.res = Ok(None)
           /\ call.zone = prev.zone
           /\ \E x \in call.before :
                  /\ AtHost(call.before, prev.zone, prev.name) = {x}
                  /\ call.posts = <<DeleteBody(prev.zone, <<x.ref>>)>>
           /\ records = prev.before

\* C5 witness: a round trip on a provider that held other records.
C5_Witness ==
    /\ PerformThenCleanup
    /\ prev.res = Ok(None)
    /\ call.res = Ok(None)
    /\ records = prev.before
    /\ records # {}

\* C6: the zone _get_zone_id_for_domain returns while handling domain d is
\* the zone that resolution yields for d.
C6_ZoneOfTheDomain ==
    (HandlerDone(call) /\ call.f.lookupAt = 0 /\ call.zone # <<>>) =>
        find_zone_id_for_domain(call.domain, NoFaults).res = Ok(call.zone)

\* The fetched records at the zone apex: their host is the zone name.
ApexRecordsFetched == {r \in FetchedRecords : r.host = call.zone}

\* C11: with an empty record_name the host compared against is the zone
\* name: add_txt_record finds an existing apex record as a conflict and
\* posts nothing, otherwise its create request carries the host "@"; and
\* del_txt_record matches the one apex TXT record of the given content and
\* posts the deletion of its ref.
C11_ApexHostIsZone ==
    (Fetched /\ call.record_name = <<>>) =>
        /\ (AddDone /\ ApexRecordsFetched # {}) =>
               call.res = ConflictError /\ call.posts = <<>>
        /\ (AddDone /\ ApexRecordsFetched = {}) =>
               call.posts = <<NewBody(call.zone, <<"@">>, call.content)>>
        /\ DelDone =>
               \A x \in ApexRecordsFetched :
                   {y \in ApexRecordsFetched :
                       y.type = "TXT" /\ y.txt = call.content} = {x} =>
                       call.posts = <<DeleteBody(call.zone, <<x.ref>>)>>

\* The index of the first dot of s (0 when it has none).
FirstDot(s) ==
    IF \E i \in 1..Len(s) : s[i] = DOT
    THEN CHOOSE i \in 1..Len(s) : s[i] = DOT /\ \A j \in 1..(i - 1) : s[j] # DOT
    ELSE 0

\* s without its leading label and the dot after it.
DropLeadingLabel(s) == SubSeq(s, FirstDot(s) + 1, Len(s))

\* "_acme_challenge." + domain, trailing dots stripped.
ChallengeName(domain) == RStripDot(AcmeLabel \o <<DOT>> \o domain)

\* The n-th lookup of the resolution in hand succeeded.
LookupFine(n) == get_domain_info(call.lookups[n], n, call.f) = Fine

\* C12: the lookups of _find_zone_id_for_domain start with the whole
\* challenge name and each next one drops one leading label, so their label
\* counts fall by one; no lookup follows one that succeeded, a lookup that
\* succeeds is the last and its candidate is returned; there are at most as
\* many lookups as the name has labels.
C12_ProbeOrder ==
    FindDone =>
        LET L == call.lookups
            n == Len(L)
        IN  /\ n >= 1
            /\ L[1] = ChallengeName(call.domain)
            /\ \A i \in 1..(n - 1) :
                   /\ FirstDot(L[i]) # 0
                   /\ L[i + 1] = DropLeadingLabel(L[i])
                   /\ NumLabels(L[i + 1]) = NumLabels(L[i]) - 1
                   /\ ~LookupFine(i)
            /\ LookupFine(n) <=> call.res = Ok(L[n])
            /\ call.res.kind = "ok" => call.res.val = L[n]
            /\ n <= NumLabels(ChallengeName(call.domain))

\* C12 witness: a resolution that stopped at its second lookup with
\* candidates left.
C12_Witness ==
    /\ FindDone
    /\ Len(call.lookups) = 2
    /\ call.res = Ok(call.lookups[2])
    /\ NumLabels(ChallengeName(call.domain)) > 2

\* The call c found no zone memoized and its resolution failed.
ResolutionFailed(c) == HandlerDone(c) /\ c.zid_before = None /\ c.zone = <<>>

\* C13: a call that finds a zone memoized issues no lookup and leaves
\* _zone_id as it was; a call whose resolution succeeds memoizes the zone it
\* found; a call whose resolution fails leaves _zone_id unset, and the call
\* after it issues lookups again.
C13_CacheFrame ==
    /\ HandlerDone(call) =>
           /\ call.zid_before # None =>
                  call.lookups = <<>> /\ zone_id = call.zid_before
           /\ (call.zid_before = None /\ call.zone # <<>>) =>
                  zone_id = call.zone /\ zone_id # None
           /\ ResolutionFailed(call) => zone_id = None
    /\ (ResolutionFailed(prev) /\ HandlerDone(call)) => call.lookups # <<>>

\* C13 witness: after a call that resolved a zone, a call for another domain
\* issued no lookup and left the memoized zone.
C13_Witness ==
    /\ HandlerDone(prev)
    /\ prev.zid_before = None
    /\ prev.zone # <<>>
    /\ HandlerDone(call)
    /\ call.domain # prev.domain
    /\ call.lookups = <<>>
    /\ zone_id = prev.zone

\* C13 second case reached: a call probing again after a failed resolution.
C13_ProbedAgain ==
    ResolutionFailed(prev) /\ HandlerDone(call) /\ call.lookups # <<>>

\* The records at the host the passes work on.
PassTarget == Reassemble(passes[1].record_name, passes[1].zone)
AtPassTarget == AtHost(records, passes[1].zone, PassTarget)

\* C14: as long as no pass has taken a step between the fetch and the post
\* of another, the provider holds at most one record at the target host.
C14_OnePassAtATime ==
    (passes # <<>> /\ ~overlapped) => Cardinality(AtPassTarget) <= 1

\* C14 witness: passes run one at a time, an add that found the record of an
\* earlier add and posted nothing, and one record at the target host.
C14_Witness ==
    /\ passes # <<>>
    /\ ~overlapped
    /\ \E p, q \in Passes :
          /\ p < q
          /\ passes[p].op = "add" /\ passes[p].pc = "done" /\ passes[p].res = Ok(None)
          /\ passes[q].op = "add" /\ passes[q].pc = "done"
          /\ passes[q].res = ConflictError /\ passes[q].posts = <<>>
    /\ Cardinality(AtPassTarget) = 1

\* Without the condition of C14: at most one record at the target host in
\* every state, overlapping passes included.
AtMostOneEvenOverlapped ==
    passes # <<>> => Cardinality(AtPassTarget) <= 1

====
